---- MODULE Spec2Model ----
(***************************************************************************)
(* Job lifecycle and status reconciliation of the Nova Reel video          *)
(* generator: VideoJob (src/models/video.py), AWSService                   *)
(* (src/services/aws_service.py) and VideoService                          *)
(* (src/services/video_service.py).                                        *)
(*                                                                         *)
(* Python's None is the empty sequence None, a present value v is the      *)
(* one-element sequence Some(v).  Time is counted in ticks, TicksPerSecond *)
(* ticks to the second.  The field jid of a record is a ghost: it stands   *)
(* for the identity of the job and is read by no operation.                *)
(***************************************************************************)
EXTENDS Integers, Sequences, FiniteSets, TLC

VARIABLES
    now,          \* the wall clock, in ticks
    importTime,   \* the value of datetime.now() when src.models.video was imported
    jobs,         \* VideoService._jobs
    store,        \* the job_*.json files of OUTPUT_DIR: file name -> content
    localFiles,   \* the invocation ids whose output/{id}/output.mp4 exists locally
    nextJid,      \* ghost: number of create_video calls so far, plus one
    ops,          \* ghost: number of operations so far
    submitFailed, \* ghost: the jobs whose submission failed
    last          \* ghost: the last operation, what it was answered and its outcome

vars == <<now, importTime, jobs, store, localFiles, nextJid, ops, submitFailed, last>>

---------------------------------------------------------------------------
(* Bounds *)

MaxCreates == 2
MaxOps == 4
MaxTime == 2
MaxFiles == 3
MaxListed == 4

---------------------------------------------------------------------------
(* Values *)

None == <<>>
Some(v) == <<v>>
Val(o) == o[1]

TicksPerSecond == 2

\* an ARN is the sequence of its "/"-separated parts; the service names the
\* n-th invocation it starts ArnOf(n), and OtherArn is an invocation that was
\* not started here
InvocationIds == <<"abc123", "def456", "ghi789", "jkl012", "mno345", "pqr678">>
ArnOf(n) == <<"arn:async-invoke", InvocationIds[n]>>
OtherArn == <<"arn:async-invoke", "zzz999">>

Prompts == { "A sunset over mountains" }
Durations == { 6 }
FpsValues == { 24 }
Resolutions == { "1280x720" }
Seeds == { 0 }

\* the messages of botocore's ClientError
ClientErrors == { "ThrottlingException" }
NotFoundError == "ResourceNotFoundException"

\* a message is the sequence of the strings it is put together from
FailureReasons == { <<"content policy violation">> }
UnknownError == <<"Unknown error">>

\* src/models/video.py:9-21
VideoConfig(duration, fps, resolution, seed) ==
    [ duration |-> duration, fps |-> fps, resolution |-> resolution, seed |-> seed ]

\* src/models/video.py:32-42: the record create_video builds; created_at is
\* the default of the dataclass field, evaluated once, when the class is defined
VideoJob(jid, prompt, config, createdAtDefault) ==
    [ jid |-> jid, prompt |-> prompt, config |-> config,
      invocation_arn |-> None, status |-> "Pending",
      created_at |-> createdAtDefault, completed_at |-> None,
      output_path |-> None, error_message |-> None ]

\* IsoFormat with the time cut to whole seconds
IsoFormat_Seconds(t) == [ iso |-> (t \div TicksPerSecond) * TicksPerSecond ]

\* datetime.isoformat / datetime.fromisoformat
IsoFormat(t) == [ iso |-> t ]
FromIsoFormat(s) == s.iso

\* src/models/video.py:44-60
to_dict(job) ==
    [ jid |-> job.jid,
      prompt |-> job.prompt,
      config |-> [ duration |-> job.config.duration, fps |-> job.config.fps,
                   resolution |-> job.config.resolution, seed |-> job.config.seed ],
      invocation_arn |-> job.invocation_arn,
      status |-> job.status,
      created_at |-> IsoFormat(job.created_at),
      completed_at |-> IF job.completed_at # None
                       THEN Some(IsoFormat(Val(job.completed_at))) ELSE None,
      output_path |-> job.output_path,
      error_message |-> job.error_message ]

\* dict.get(key, default)
Get(d, key, default) == IF key \in DOMAIN d THEN d[key] ELSE default

\* src/models/video.py:62-96; timeNow is datetime.now() at the call, seed0 the
\* seed VideoConfig.__post_init__ draws when the stored one is missing
\* NestedArn with the response of the submission never looked at
NestedArn_Never(data) == FALSE

\* src/models/video.py:66: the identifier is in the response of the submission
NestedArn(data) ==
    "response" \in DOMAIN data /\ "invocationArn" \in DOMAIN data.response

from_dict(data, timeNow, seed0) ==
    LET invocation_arn ==
            IF NestedArn(data)
            THEN Some(data.response.invocationArn)
            ELSE Get(data, "invocation_arn", None)
        config_data == data.config
        legacy == "durationSeconds" \in DOMAIN config_data
        duration == IF legacy THEN config_data.durationSeconds ELSE config_data.duration
        resolution == IF legacy THEN config_data.dimension ELSE config_data.resolution
        seed == IF "seed" \in DOMAIN config_data THEN config_data.seed ELSE seed0
    IN  [ jid |-> data.jid,
          prompt |-> data.prompt,
          config |-> VideoConfig(duration, config_data.fps, resolution, seed),
          invocation_arn |-> invocation_arn,
          status |-> Get(data, "status", "InProgress"),
          created_at |-> IF "created_at" \in DOMAIN data
                         THEN FromIsoFormat(data.created_at) ELSE timeNow,
          completed_at |-> IF Get(data, "completed_at", None) # None
                           THEN Some(FromIsoFormat(Val(data.completed_at))) ELSE None,
          output_path |-> Get(data, "output_path", None),
          error_message |-> Get(data, "error_message", None) ]

\* src/services/video_service.py:115-118: strftime("%Y%m%d_%H%M%S") keeps the
\* whole seconds of created_at
JobFile(job) == job.created_at \div TicksPerSecond

\* _save_job with the write left out
_save_job_NoWrite(st, job) == st

\* src/services/video_service.py:111-121
_save_job(st, job) ==
    [ f \in DOMAIN st \cup {JobFile(job)} |->
        IF f = JobFile(job) THEN to_dict(job) ELSE st[f] ]

---------------------------------------------------------------------------
(* AWSService.start_video_generation: the answer of start_async_invoke is   *)
(* either a response carrying an invocationArn or a ClientError.            *)

SubmitAnswers(n) ==
    { [ ok |-> TRUE, invocationArn |-> ArnOf(n) ] } \cup
    { [ ok |-> FALSE, error |-> e ] : e \in ClientErrors }

\* src/services/aws_service.py:42-50
start_video_generation(answer) ==
    IF answer.ok
    THEN [ raised |-> "no", response |-> [ invocationArn |-> answer.invocationArn ] ]
    ELSE [ raised |-> "VideoGenerationError",
           message |-> <<"AWS API Error: ", answer.error>> ]

---------------------------------------------------------------------------
(* AWSService.get_job_status.  The three requests it can make are answered  *)
(* by the service: list_async_invokes(statusEquals="Completed"),            *)
(* list_async_invokes(statusEquals="Failed") and get_async_invoke.          *)

Summary(a) == [ invocationArn |-> a ]
SummaryWith(a, reason) == [ invocationArn |-> a, failureReason |-> reason ]

ListAnswer(summaries) == [ ok |-> TRUE, asyncInvokeSummaries |-> summaries ]
ErrorAnswer(e) == [ ok |-> FALSE, error |-> e ]

\* the listings a poll of the identifier arn (None or Some) can be answered:
\* without it, or with it after another invocation
ListCompletedAnswers(arn) ==
    { ListAnswer(<<Summary(OtherArn)>>) } \cup
    { ListAnswer(<<Summary(OtherArn), Summary(Val(a))>>) : a \in {arn} \ {None} } \cup
    { ErrorAnswer(e) : e \in ClientErrors }

ListFailedAnswers(arn) ==
    { ListAnswer(<<>>) } \cup
    { ListAnswer(<<Summary(OtherArn), Summary(Val(a))>>) : a \in {arn} \ {None} } \cup
    { ListAnswer(<<SummaryWith(Val(a), r)>>) : a \in {arn} \ {None}, r \in FailureReasons } \cup
    { ErrorAnswer(e) : e \in ClientErrors }

\* GetInvokeAnswers with a service that also reports Pending
GetInvokeAnswers_WithPending ==
    { [ ok |-> TRUE, response |-> [ status |-> s ] ] :
        s \in {"Pending", "InProgress", "Completed", "Failed"} } \cup
    { ErrorAnswer(e) : e \in ClientErrors \cup {NotFoundError} }

\* the answers of get_async_invoke: the status of an invocation is InProgress,
\* Completed or Failed
GetInvokeAnswers ==
    { [ ok |-> TRUE, response |-> [ status |-> s ] ] :
        s \in {"InProgress", "Completed", "Failed"} } \cup
    { [ ok |-> TRUE, response |-> [ status |-> "Failed", failureMessage |-> r ] ] :
        r \in FailureReasons } \cup
    { ErrorAnswer(e) : e \in ClientErrors \cup {NotFoundError} }

\* FirstMatch with the comparison of the identifier left out
FirstMatch_AnySummary(summaries, arn, i) ==
    IF i > Len(summaries) THEN 0 ELSE i

\* the first summary of the listing whose invocationArn is the one asked for,
\* as the for loops of src/services/aws_service.py:68-69 and 81-82 find it;
\* 0 when there is none (no summary equals an absent identifier)
RECURSIVE FirstMatch(_, _, _)
FirstMatch(summaries, arn, i) ==
    IF i > Len(summaries) THEN 0
    ELSE IF Some(summaries[i].invocationArn) = arn THEN i
    ELSE FirstMatch(summaries, arn, i + 1)

\* IsNotFound with every error taken for a failure
IsNotFound_Never(e) == FALSE

\* src/services/aws_service.py:92
IsNotFound(e) == e = NotFoundError

\* src/services/aws_service.py:70-77 and 95-102
CompletedInfo == [ status |-> "Completed", outputDataConfig |-> "s3://bucket" ]

StatusCheckError(e) ==
    [ raised |-> "VideoGenerationError", message |-> <<"Error checking job status: ", e>> ]

\* src/services/aws_service.py:52-106; arn is job.invocation_arn (None or Some)
aws_get_job_status(arn, completed, failed, direct) ==
    IF ~completed.ok
    THEN StatusCheckError(completed.error) @@ [ calls |-> << <<"list_completed">> >> ]
    ELSE IF FirstMatch(completed.asyncInvokeSummaries, arn, 1) # 0
    THEN [ raised |-> "no", info |-> CompletedInfo,
           calls |-> << <<"list_completed">> >> ]
    ELSE IF ~failed.ok
    THEN StatusCheckError(failed.error)
           @@ [ calls |-> << <<"list_completed">>, <<"list_failed">> >> ]
    ELSE IF FirstMatch(failed.asyncInvokeSummaries, arn, 1) # 0
    THEN LET job == failed.asyncInvokeSummaries[
                        FirstMatch(failed.asyncInvokeSummaries, arn, 1)]
         IN  [ raised |-> "no",
               info |-> [ status |-> "Failed",
                          failureMessage |-> Get(job, "failureReason", UnknownError) ],
               calls |-> << <<"list_completed">>, <<"list_failed">> >> ]
    ELSE IF arn = None
    \* botocore validates the parameters before it sends the request:
    \* invocationArn=None raises ParamValidationError, which is no ClientError
    THEN [ raised |-> "ParamValidationError",
           calls |-> << <<"list_completed">>, <<"list_failed">> >> ]
    ELSE LET calls == << <<"list_completed">>, <<"list_failed">>, <<"get_async_invoke">> >>
         IN  IF direct.ok
             THEN [ raised |-> "no", info |-> direct.response, calls |-> calls ]
             ELSE IF IsNotFound(direct.error)
             THEN [ raised |-> "no", info |-> CompletedInfo, calls |-> calls ]
             ELSE StatusCheckError(direct.error) @@ [ calls |-> calls ]

---------------------------------------------------------------------------
(* AWSService.download_video.  The requests to the storage service are      *)
(* download_file of the deterministic key, list_objects_v2 under the prefix *)
(* and download_file of a listed key.                                       *)

OUTPUT_DIR == "output"

\* an object key is its directory, name and extension
Key(dir, name, ext) == [ dir |-> dir, name |-> name, ext |-> ext ]
EndsWithMp4(key) == key.ext = "mp4"

\* str.split("/")[-1]
InvocationId(arn) == arn[Len(arn)]

LocalFile(invocation_id) == <<OUTPUT_DIR, invocation_id, "output.mp4">>

DownloadAnswers == { [ ok |-> TRUE ] } \cup { ErrorAnswer(e) : e \in ClientErrors }

\* the names and extensions the prefix listing answers with
ListObjectsAnswers ==
    { [ ok |-> TRUE, Contents |-> c ] :
        c \in { <<>>, << <<"manifest", "json">> >>,
                << <<"manifest", "json">>, <<"video", "mp4">>, <<"clip", "mp4">> >> } } \cup
    { ErrorAnswer(e) : e \in ClientErrors }

\* FirstMp4 with the test of the extension left out
FirstMp4_AnyObject(contents, i) ==
    IF i > Len(contents) THEN 0 ELSE i

RECURSIVE FirstMp4(_, _)
FirstMp4(contents, i) ==
    IF i > Len(contents) THEN 0
    ELSE IF EndsWithMp4(contents[i]) THEN i
    ELSE FirstMp4(contents, i + 1)

\* AlreadyDownloaded with the local copy never seen
AlreadyDownloaded_Never(invocation_id, files) == FALSE

\* src/services/aws_service.py:130: os.path.exists(local_file)
AlreadyDownloaded(invocation_id, files) == invocation_id \in files

DownloadError(e) ==
    [ raised |-> "VideoGenerationError", message |-> <<"Error downloading video: ", e>> ]

\* src/services/aws_service.py:108-164; files is the set of invocation ids
\* with a local copy
download_video(job, files, direct, listing, second) ==
    IF job.invocation_arn = None
    \* None.split raises AttributeError
    THEN [ raised |-> "AttributeError", files |-> files, calls |-> <<>> ]
    ELSE
    LET invocation_id == InvocationId(Val(job.invocation_arn))
        local_file == LocalFile(invocation_id)
        s3_key == Key(invocation_id, "output", "mp4")
        c1 == << <<"download_file", s3_key>> >>
        c2 == Append(c1, <<"list_objects_v2", invocation_id>>)
    IN  IF AlreadyDownloaded(invocation_id, files)
        THEN [ raised |-> "no", value |-> Some(local_file), files |-> files,
               calls |-> <<>> ]
        ELSE IF direct.ok
        THEN [ raised |-> "no", value |-> Some(local_file),
               files |-> files \cup {invocation_id}, calls |-> c1 ]
        ELSE IF ~listing.ok
        THEN DownloadError(listing.error) @@ [ files |-> files, calls |-> c2 ]
        ELSE LET contents == [ i \in 1..Len(listing.Contents) |->
                                 Key(invocation_id, listing.Contents[i][1],
                                     listing.Contents[i][2]) ]
                 k == FirstMp4(contents, 1)
             IN  IF k = 0
                 THEN [ raised |-> "no", value |-> None, files |-> files, calls |-> c2 ]
                 ELSE LET c3 == Append(c2, <<"download_file", contents[k]>>)
                      IN  IF second.ok
                          THEN [ raised |-> "no", value |-> Some(local_file),
                                 files |-> files \cup {invocation_id}, calls |-> c3 ]
                          ELSE DownloadError(second.error)
                                 @@ [ files |-> files, calls |-> c3 ]

---------------------------------------------------------------------------
(* VideoService *)

\* src/services/video_service.py:123-137 on an empty OUTPUT_DIR
Init ==
    /\ now = 0
    /\ importTime = 0
    /\ jobs = <<>>
    /\ store = <<>>
    /\ localFiles = {}
    /\ nextJid = 1
    /\ ops = 0
    /\ submitFailed = {}
    /\ last = [ op |-> "init" ]

\* the clock advances between operations
Tick ==
    /\ now < MaxTime
    /\ now' = now + 1
    /\ UNCHANGED <<importTime, jobs, store, localFiles, nextJid, ops, submitFailed, last>>

\* Submitted with the assignment of invocation_arn left out
Submitted_NoArn(job, response) ==
    [ job EXCEPT !.status = "InProgress" ]

\* src/services/video_service.py:52-53
Submitted(job, response) ==
    [ job EXCEPT !.invocation_arn = Some(response.invocationArn),
                 !.status = "InProgress" ]

\* Failing with the assignment of error_message left out
Failing_NoMessage(job, message) ==
    [ job EXCEPT !.status = "Failed" ]

\* src/services/video_service.py:62-63 and 98-99
Failing(job, message) ==
    [ job EXCEPT !.status = "Failed", !.error_message = Some(message) ]

\* src/services/video_service.py:23-65
create_video(prompt, duration, fps, resolution, seed, answer) ==
    LET config == VideoConfig(duration, fps, resolution, seed)
        job == VideoJob(nextJid, prompt, config, importTime)
        r == start_video_generation(answer)
    IN  IF r.raised = "no"
        THEN LET job2 == Submitted(job, r.response)
             IN  /\ jobs' = Append(jobs, job2)
                 /\ store' = _save_job(store, job2)
                 /\ submitFailed' = submitFailed
                 /\ last' = [ op |-> "create_video", answer |-> answer,
                              raised |-> "no", job |-> job2 ]
        ELSE LET job2 == Failing(job, r.message)
             IN  /\ jobs' = jobs
                 /\ store' = _save_job(store, job2)
                 /\ submitFailed' = submitFailed \cup {job.jid}
                 /\ last' = [ op |-> "create_video", answer |-> answer,
                              raised |-> r.raised, job |-> job2 ]

Create ==
    /\ nextJid <= MaxCreates
    /\ ops < MaxOps
    /\ \E prompt \in Prompts, duration \in Durations, fps \in FpsValues,
          resolution \in Resolutions, seed \in Seeds, answer \in SubmitAnswers(nextJid) :
           create_video(prompt, duration, fps, resolution, seed, answer)
    /\ nextJid' = nextJid + 1
    /\ ops' = ops + 1
    /\ UNCHANGED <<now, importTime, localFiles>>

\* Completing with the assignment of completed_at left out
Completing_NoTimestamp(job, t) ==
    [ job EXCEPT !.status = "Completed" ]

\* src/services/video_service.py:85-88
Completing(job, t) ==
    [ job EXCEPT !.status = "Completed", !.completed_at = Some(t) ]

\* FailingWith with the reason of the service dropped
FailingWith_AlwaysUnknown(job, status_info) ==
    [ job EXCEPT !.status = "Failed", !.error_message = Some(UnknownError) ]

\* src/services/video_service.py:85 and 90-91
FailingWith(job, status_info) ==
    [ job EXCEPT !.status = "Failed",
                 !.error_message = Some(Get(status_info, "failureMessage", UnknownError)) ]

\* StatusChanged with every polled status taken for a new one
StatusChanged_Always(current_status, job) == TRUE

\* src/services/video_service.py:84
StatusChanged(current_status, job) == current_status # job.status

\* what VideoService.get_job_status does to the record job at time t, given
\* the outcome p of the status poll and the outcome d of download_video (used
\* only on a change to Completed): src/services/video_service.py:80-101
RefreshOutcome(job, t, p, d) ==
    IF p.raised = "VideoGenerationError"
    THEN [ job |-> Failing(job, p.message), saved |-> TRUE, raised |-> p.raised ]
    ELSE IF p.raised # "no"
    THEN [ job |-> job, saved |-> FALSE, raised |-> p.raised ]
    ELSE
    LET status_info == p.info
        current_status == status_info.status
    IN  IF ~StatusChanged(current_status, job)
        THEN [ job |-> job, saved |-> FALSE, raised |-> "no",
               result |-> current_status ]
        ELSE IF current_status = "Completed"
        THEN LET job1 == Completing(job, t)
             IN  IF d.raised = "VideoGenerationError"
                 THEN [ job |-> Failing(job1, d.message), saved |-> TRUE,
                        raised |-> d.raised ]
                 ELSE IF d.raised # "no"
                 THEN [ job |-> job1, saved |-> FALSE, raised |-> d.raised ]
                 ELSE [ job |-> [ job1 EXCEPT !.output_path = d.value ],
                        saved |-> TRUE, raised |-> "no", result |-> current_status ]
        ELSE IF current_status = "Failed"
        THEN [ job |-> FailingWith(job, status_info),
               saved |-> TRUE, raised |-> "no", result |-> current_status ]
        ELSE [ job |-> [ job EXCEPT !.status = current_status ],
               saved |-> TRUE, raised |-> "no", result |-> current_status ]

\* download_video is reached when the poll answers a status other than the
\* stored one and that status is Completed: src/services/video_service.py:84-89
ReachesDownload(job, p) ==
    /\ p.raised = "no"
    /\ StatusChanged(p.info.status, job)
    /\ p.info.status = "Completed"

\* ghost: the failure reason the answers of the service carry for arn, None
\* when they carry none
ServiceReason(arn, failed, direct) ==
    LET summaries == failed.asyncInvokeSummaries
        matches == { k \in 1..Len(summaries) : Some(summaries[k].invocationArn) = arn }
    IN  IF failed.ok /\ matches # {}
        THEN LET k == CHOOSE m \in matches : \A n \in matches : m <= n
             IN  IF "failureReason" \in DOMAIN summaries[k]
                 THEN Some(summaries[k].failureReason) ELSE None
        ELSE IF /\ direct.ok /\ "response" \in DOMAIN direct
                /\ "failureMessage" \in DOMAIN direct.response
        THEN Some(direct.response.failureMessage)
        ELSE None

\* VideoService.get_job_status(jobs[i]): src/services/video_service.py:67-101;
\* the callers are src/ui/components.py:123-126 and 154-157
get_job_status(i, completed, failed, direct, dlDirect, dlListing, dlSecond) ==
    LET job == jobs[i]
        p == aws_get_job_status(job.invocation_arn, completed, failed, direct)
        d == download_video(job, localFiles, dlDirect, dlListing, dlSecond)
        down == ReachesDownload(job, p)
        o == RefreshOutcome(job, now, p, d)
    IN  /\ jobs' = [ jobs EXCEPT ![i] = o.job ]
        /\ store' = IF o.saved THEN _save_job(store, o.job) ELSE store
        /\ localFiles' = IF down THEN d.files ELSE localFiles
        /\ last' = [ op |-> "get_job_status", index |-> i,
                     statusBefore |-> job.status,
                     pollRaised |-> p.raised,
                     pollStatus |-> IF p.raised = "no" THEN p.info.status ELSE "none",
                     pollMessage |-> IF p.raised = "no" /\ "failureMessage" \in DOMAIN p.info
                                     THEN Some(p.info.failureMessage) ELSE None,
                     serviceReason |-> ServiceReason(job.invocation_arn, failed, direct),
                     polled |-> p.calls # <<>>,
                     downloadRaised |-> IF down THEN d.raised ELSE "not called",
                     downloadValue |-> IF down /\ d.raised = "no" THEN d.value ELSE None,
                     storageCalls |-> IF down THEN Len(d.calls) ELSE 0,
                     raised |-> o.raised,
                     result |-> Get(o, "result", "none"),
                     saved |-> o.saved ]

\* the answers of the service to the requests the refresh of jobs[i] makes; a
\* request that is not made has the one answer NoAnswer
NoAnswer == [ ok |-> TRUE, asyncInvokeSummaries |-> <<>>, Contents |-> <<>> ]

IfAsked(asked, answers) == IF asked THEN answers ELSE {NoAnswer}

Refresh ==
    /\ ops < MaxOps
    /\ \E i \in 1..Len(jobs) :
        LET arn == jobs[i].invocation_arn IN
        \E completed \in ListCompletedAnswers(arn) :
        \E failed \in IfAsked(/\ completed.ok
                              /\ FirstMatch(completed.asyncInvokeSummaries, arn, 1) = 0,
                              ListFailedAnswers(arn)) :
        \E direct \in IfAsked(/\ completed.ok /\ failed.ok /\ arn # None
                              /\ FirstMatch(completed.asyncInvokeSummaries, arn, 1) = 0
                              /\ FirstMatch(failed.asyncInvokeSummaries, arn, 1) = 0,
                              GetInvokeAnswers) :
        LET p == aws_get_job_status(arn, completed, failed, direct)
            down == /\ ReachesDownload(jobs[i], p)
                    /\ ~AlreadyDownloaded(InvocationId(Val(arn)), localFiles)
        IN  \E dlDirect \in IfAsked(down, DownloadAnswers) :
            \E dlListing \in IfAsked(down /\ ~dlDirect.ok, ListObjectsAnswers) :
            \E dlSecond \in IfAsked(/\ down /\ ~dlDirect.ok /\ dlListing.ok
                                    /\ \E k \in 1..Len(dlListing.Contents) :
                                           dlListing.Contents[k][2] = "mp4",
                                    DownloadAnswers) :
                get_job_status(i, completed, failed, direct,
                               dlDirect, dlListing, dlSecond)
    /\ ops' = ops + 1
    /\ UNCHANGED <<now, importTime, nextJid, submitFailed>>

\* json.load (line 132): a file whose text is no JSON document is a unit with
\* the field text
IsJson(unit) == "text" \notin DOMAIN unit

\* datetime.fromisoformat raises ValueError for a string in no ISO format
IsIso(s) == "iso" \in DOMAIN s

\* src/models/video.py:62-96: the exception from_dict raises for the
\* dictionary data, "no" when it returns
FromDictRaises(data) ==
    IF "config" \notin DOMAIN data THEN "KeyError"
    ELSE IF "durationSeconds" \in DOMAIN data.config
            /\ "dimension" \notin DOMAIN data.config THEN "KeyError"
    ELSE IF "durationSeconds" \notin DOMAIN data.config
            /\ {"duration", "resolution"} \ DOMAIN data.config # {} THEN "KeyError"
    ELSE IF "fps" \notin DOMAIN data.config THEN "KeyError"
    ELSE IF "prompt" \notin DOMAIN data THEN "KeyError"
    ELSE IF "created_at" \in DOMAIN data /\ ~IsIso(data.created_at) THEN "ValueError"
    ELSE IF Get(data, "completed_at", None) # None
            /\ ~IsIso(Val(data.completed_at)) THEN "ValueError"
    ELSE "no"

\* src/services/video_service.py:131-134: the body of the try statement
TryLoad(unit, t) ==
    IF ~IsJson(unit) THEN [ raised |-> "JSONDecodeError" ]
    ELSE IF FromDictRaises(unit) # "no" THEN [ raised |-> FromDictRaises(unit) ]
    ELSE [ raised |-> "no", job |-> from_dict(unit, t, 0) ]

\* Caught with only the errors of json.load handled
Caught_OnlyJson(e) == e = "JSONDecodeError"

\* src/services/video_service.py:135: except Exception
Caught(e) == e \in {"JSONDecodeError", "KeyError", "ValueError"}

\* src/services/video_service.py:128-136: the loop over the files, in the order
\* os.listdir names them; a file whose error is handled is passed over
RECURSIVE LoadFiles(_, _, _)
LoadFiles(st, order, t) ==
    IF order = <<>> THEN [ raised |-> "no", jobs |-> <<>> ]
    ELSE LET r == TryLoad(st[Head(order)], t)
         IN  IF r.raised # "no" /\ ~Caught(r.raised)
             THEN [ raised |-> r.raised, jobs |-> <<>> ]
             ELSE LET rest == LoadFiles(st, Tail(order), t)
                  IN  [ raised |-> rest.raised,
                        jobs |-> (IF r.raised = "no" THEN <<r.job>> ELSE <<>>)
                                 \o rest.jobs ]

ListDirs(st) ==
    { order \in [ 1..Cardinality(DOMAIN st) -> DOMAIN st ] :
        \A a, b \in DOMAIN order : a # b => order[a] # order[b] }

\* os.path.exists(OUTPUT_DIR): the directory of a store with files exists
DirExists(st) == IF st = <<>> THEN BOOLEAN ELSE {TRUE}

_load_existing_jobs(exists, order) ==
    jobs' = IF ~exists THEN <<>> ELSE LoadFiles(store, order, now).jobs

\* src/app.py:60-63 and 14-16: every run of the script builds a VideoService,
\* which reads the jobs from the store; the modules stay imported
NewService ==
    /\ ops < MaxOps
    /\ \E exists \in DirExists(store), order \in ListDirs(store) :
           _load_existing_jobs(exists, order)
    /\ last' = [ op |-> "load" ]
    /\ ops' = ops + 1
    /\ UNCHANGED <<now, importTime, store, localFiles, nextJid, submitFailed>>

\* a new process: src/models/video.py is imported again, which evaluates the
\* default of created_at (src/models/video.py:38), and a VideoService is built
Restart ==
    /\ ops < MaxOps
    /\ importTime' = now
    /\ \E exists \in DirExists(store), order \in ListDirs(store) :
           _load_existing_jobs(exists, order)
    /\ last' = [ op |-> "load" ]
    /\ ops' = ops + 1
    /\ UNCHANGED <<now, store, localFiles, nextJid, submitFailed>>

Next ==
    \/ Tick
    \/ Create
    \/ Refresh
    \/ NewService
    \/ Restart

Spec == Init /\ [][Next]_vars

---------------------------------------------------------------------------
(* AWSService.get_job_status on its own: an identifier and the answers of   *)
(* the service to the three requests are drawn, and the poll is applied.    *)

PollArns == { None, Some(ArnOf(1)), Some(ArnOf(2)) }

PollCompletedAnswers == UNION { ListCompletedAnswers(a) : a \in PollArns }

PollFailedAnswers ==
    UNION { ListFailedAnswers(a) : a \in PollArns } \cup
    { ListAnswer(<<Summary(ArnOf(1)), SummaryWith(ArnOf(1), r)>>) : r \in FailureReasons }

InitPoll ==
    /\ now = 0 /\ importTime = 0 /\ jobs = <<>> /\ store = <<>> /\ localFiles = {}
    /\ nextJid = 1 /\ ops = 0 /\ submitFailed = {}
    /\ \E arn \in PollArns, completed \in PollCompletedAnswers,
          failed \in PollFailedAnswers, direct \in GetInvokeAnswers :
           last = [ op |-> "poll_input", arn |-> arn, completed |-> completed,
                    failed |-> failed, direct |-> direct ]

Poll ==
    /\ last.op = "poll_input"
    /\ last' = [ last EXCEPT !.op = "poll" ] @@
                [ out |-> aws_get_job_status(last.arn, last.completed,
                                             last.failed, last.direct) ]
    /\ UNCHANGED <<now, importTime, jobs, store, localFiles, nextJid, ops, submitFailed>>

NextPoll == Poll

SpecPoll == InitPoll /\ [][NextPoll]_vars

---------------------------------------------------------------------------
(* AWSService.download_video on its own: a job, the local copies and the    *)
(* answers of the storage service are drawn, and the lookup is applied.     *)

DownloadJobs ==
    { VideoJob(1, p, VideoConfig(6, 24, "1280x720", 0), 0) : p \in Prompts } \cup
    { Submitted(VideoJob(n, p, VideoConfig(6, 24, "1280x720", 0), 0),
                [ invocationArn |-> ArnOf(n) ]) : n \in 1..2, p \in Prompts }

DownloadListings ==
    ListObjectsAnswers \cup
    { [ ok |-> TRUE, Contents |-> << <<"clip", "mp4">>, <<"manifest", "json">> >> ] }

InitDownload ==
    /\ now = 0 /\ importTime = 0 /\ jobs = <<>> /\ store = <<>>
    /\ nextJid = 1 /\ ops = 0 /\ submitFailed = {}
    /\ localFiles \in SUBSET { InvocationIds[n] : n \in 1..2 }
    /\ \E job \in DownloadJobs, direct \in DownloadAnswers,
          listing \in DownloadListings, second \in DownloadAnswers :
           last = [ op |-> "download_input", job |-> job, files |-> localFiles,
                    direct |-> direct, listing |-> listing, second |-> second ]

Download ==
    /\ last.op = "download_input"
    /\ LET d == download_video(last.job, localFiles, last.direct, last.listing,
                               last.second)
       IN  /\ last' = [ last EXCEPT !.op = "download" ] @@ [ out |-> d ]
           /\ localFiles' = d.files
    /\ UNCHANGED <<now, importTime, jobs, store, nextJid, ops, submitFailed>>

NextDownload == Download

SpecDownload == InitDownload /\ [][NextDownload]_vars

---------------------------------------------------------------------------
(* VideoService._load_existing_jobs on its own: a store of well-formed and  *)
(* malformed files is drawn and a service is built on it.                   *)

LoadJobs ==
    { Submitted(VideoJob(1, <<"a cat">>, VideoConfig(6, 24, "1280x720", 0), 0),
                [ invocationArn |-> ArnOf(1) ]),
      Failing(VideoJob(2, <<"a dog">>, VideoConfig(6, 24, "1280x720", 0), 1),
              <<"ThrottlingException">>) }

\* a file of the older layout: no created_at, no status, the identifier in
\* the response of the submission
LegacyUnit ==
    [ jid |-> 3, prompt |-> <<"a cat">>,
      config |-> [ durationSeconds |-> 6, fps |-> 24, dimension |-> "1280x720" ],
      response |-> [ invocationArn |-> ArnOf(2) ] ]

GoodUnits == { to_dict(j) : j \in LoadJobs } \cup { LegacyUnit }

BadUnits ==
    { [ text |-> <<"{">> ],
      [ jid |-> 4, config |-> [ duration |-> 6, fps |-> 24,
                                resolution |-> "1280x720", seed |-> 0 ] ],
      [ jid |-> 4, prompt |-> <<"a cat">> ],
      [ jid |-> 4, prompt |-> <<"a cat">>,
        config |-> [ duration |-> 6, fps |-> 24, resolution |-> "1280x720",
                     seed |-> 0 ],
        created_at |-> [ text |-> <<"yesterday">> ] ] }

LoadStores ==
    UNION { [ names -> GoodUnits \cup BadUnits ] : names \in SUBSET (1..MaxFiles) }

InitLoad ==
    /\ now = 0 /\ importTime = 0 /\ jobs = <<>> /\ localFiles = {}
    /\ nextJid = 1 /\ ops = 0 /\ submitFailed = {}
    /\ store \in LoadStores
    /\ \E exists \in DirExists(store) :
           last = [ op |-> "load_input", exists |-> exists ]

Load ==
    /\ last.op = "load_input"
    /\ \E order \in ListDirs(store) :
           /\ _load_existing_jobs(last.exists, order)
           /\ last' = [ op |-> "load", exists |-> last.exists, order |-> order,
                        raised |-> IF last.exists
                                   THEN LoadFiles(store, order, now).raised
                                   ELSE "no" ]
    /\ UNCHANGED <<now, importTime, store, localFiles, nextJid, ops, submitFailed>>

NextLoad == Load

SpecLoad == InitLoad /\ [][NextLoad]_vars

---------------------------------------------------------------------------
(* VideoService.get_jobs: sorted(self._jobs, key=created_at, reverse=True). *)
(* sorted is stable, and with reverse=True elements of equal key keep the   *)
(* order they have in the list.                                             *)

\* InsertDescending with an element put before the elements of equal key
InsertDescending_BeforeEqual(x, s) ==
    LET before == SelectSeq(s, LAMBDA y : y.created_at > x.created_at)
        after == SelectSeq(s, LAMBDA y : y.created_at <= x.created_at)
    IN  before \o <<x>> \o after

\* x put into the descending sequence s, after the elements of equal key
RECURSIVE InsertDescending(_, _)
InsertDescending(x, s) ==
    IF s = <<>> THEN <<x>>
    ELSE IF Head(s).created_at >= x.created_at
         THEN <<Head(s)>> \o InsertDescending(x, Tail(s))
         ELSE <<x>> \o s

RECURSIVE SortedDescending(_)
SortedDescending(js) ==
    IF js = <<>> THEN <<>>
    ELSE InsertDescending(js[Len(js)], SortedDescending(SubSeq(js, 1, Len(js) - 1)))

\* src/services/video_service.py:103-109
get_jobs(js) == SortedDescending(js)

\* the lists a service can hold: the k-th job of the list is job k
ListedJobs ==
    UNION { { [ k \in 1..n |->
                  Submitted(VideoJob(k, <<"a cat">>, VideoConfig(6, 24, "1280x720", 0),
                                     at[k]),
                            [ invocationArn |-> ArnOf(k) ]) ] :
              at \in [ 1..n -> 0..MaxTime ] } : n \in 0..MaxListed }

InitList ==
    /\ now = MaxTime /\ importTime = 0 /\ store = <<>> /\ localFiles = {}
    /\ nextJid = 1 /\ ops = 0 /\ submitFailed = {}
    /\ jobs \in ListedJobs
    /\ last = [ op |-> "list_input" ]

GetJobs ==
    /\ last.op = "list_input"
    /\ last' = [ op |-> "get_jobs", result |-> get_jobs(jobs) ]
    /\ UNCHANGED <<now, importTime, jobs, store, localFiles, nextJid, ops,
                   submitFailed>>

NextList == GetJobs

SpecList == InitList /\ [][NextList]_vars

---------------------------------------------------------------------------
(* VideoJob.to_dict and VideoJob.from_dict on their own: a record is drawn, *)
(* written to its storage form and read back.                               *)

\* the records a VideoJob can be: any status, every optional field set or not
SerialRecords ==
    { [ jid |-> 1, prompt |-> p,
        config |-> VideoConfig(6, fps, "1280x720", seed),
        invocation_arn |-> arn, status |-> status, created_at |-> created,
        completed_at |-> completed, output_path |-> path, error_message |-> err ] :
      p \in Prompts, fps \in {24, 60}, seed \in {0, 5},
      arn \in {None, Some(ArnOf(1))},
      status \in {"Pending", "InProgress", "Completed", "Failed"},
      created \in 0..MaxTime,
      completed \in {None, Some(1)},
      path \in {None, Some(LocalFile(InvocationIds[1]))},
      err \in {None, Some(<<"AWS API Error: ", "ThrottlingException">>)} }

InitSerial ==
    /\ now = MaxTime /\ importTime = 0 /\ store = <<>> /\ localFiles = {}
    /\ nextJid = 1 /\ ops = 0 /\ submitFailed = {}
    /\ \E r \in SerialRecords : jobs = <<r>>
    /\ last = [ op |-> "serial_input" ]

\* seed0 is a seed no drawn record carries
RoundTrip ==
    /\ last.op = "serial_input"
    /\ last' = [ op |-> "round_trip",
                 data |-> to_dict(jobs[1]),
                 back |-> from_dict(to_dict(jobs[1]), now, 7) ]
    /\ UNCHANGED <<now, importTime, jobs, store, localFiles, nextJid, ops,
                   submitFailed>>

NextSerial == RoundTrip

SpecSerial == InitSerial /\ [][NextSerial]_vars

---------------------------------------------------------------------------
(* VideoJob.from_dict on the two layouts of a stored record: the same       *)
(* values are written with the older keys and with the present keys, and    *)
(* each record is read by a call of its own, with the clock and the seed    *)
(* that call draws.                                                          *)

LegacyConfig(fps, stored) ==
    IF stored # None
    THEN [ durationSeconds |-> 6, fps |-> fps, dimension |-> "1280x720",
           seed |-> Val(stored) ]
    ELSE [ durationSeconds |-> 6, fps |-> fps, dimension |-> "1280x720" ]

ModernConfig(fps, stored) ==
    IF stored # None
    THEN [ duration |-> 6, fps |-> fps, resolution |-> "1280x720",
           seed |-> Val(stored) ]
    ELSE [ duration |-> 6, fps |-> fps, resolution |-> "1280x720" ]

\* full: the record carries status, created_at and the three fields of the
\* outcome; otherwise it carries what the older application wrote
\* (checkpoint_current/video_job.py:82-91): prompt, config and identifier
LegacyRecord(full, fps, stored, n, status, created) ==
    IF full
    THEN [ jid |-> 1, prompt |-> "A sunset over mountains",
           config |-> LegacyConfig(fps, stored),
           response |-> [ invocationArn |-> ArnOf(n) ],
           status |-> status, created_at |-> IsoFormat(created),
           completed_at |-> IF status = "Completed" THEN Some(IsoFormat(created)) ELSE None,
           output_path |-> IF status = "Completed"
                           THEN Some(LocalFile(InvocationIds[n])) ELSE None,
           error_message |-> IF status = "Failed" THEN Some(UnknownError) ELSE None ]
    ELSE [ jid |-> 1, prompt |-> "A sunset over mountains",
           config |-> LegacyConfig(fps, stored),
           response |-> [ invocationArn |-> ArnOf(n) ] ]

ModernRecord(full, fps, stored, n, status, created) ==
    IF full
    THEN [ jid |-> 1, prompt |-> "A sunset over mountains",
           config |-> ModernConfig(fps, stored),
           invocation_arn |-> Some(ArnOf(n)),
           status |-> status, created_at |-> IsoFormat(created),
           completed_at |-> IF status = "Completed" THEN Some(IsoFormat(created)) ELSE None,
           output_path |-> IF status = "Completed"
                           THEN Some(LocalFile(InvocationIds[n])) ELSE None,
           error_message |-> IF status = "Failed" THEN Some(UnknownError) ELSE None ]
    ELSE [ jid |-> 1, prompt |-> "A sunset over mountains",
           config |-> ModernConfig(fps, stored),
           invocation_arn |-> Some(ArnOf(n)) ]

InitLegacy ==
    /\ now = 0 /\ importTime = 0 /\ jobs = <<>> /\ store = <<>> /\ localFiles = {}
    /\ nextJid = 1 /\ ops = 0 /\ submitFailed = {}
    /\ \E full \in BOOLEAN, fps \in {24, 60}, stored \in {None, Some(5)},
          n \in 1..2, status \in {"InProgress", "Completed", "Failed"},
          created \in 0..MaxTime, t1 \in 0..MaxTime, t2 \in 0..MaxTime,
          s1 \in {7, 8}, s2 \in {7, 8} :
           /\ t1 <= t2
           /\ ~full => status = "InProgress" /\ created = 0
           /\ last = [ op |-> "legacy_input", full |-> full, stored |-> stored,
                       legacy |-> LegacyRecord(full, fps, stored, n, status, created),
                       modern |-> ModernRecord(full, fps, stored, n, status, created),
                       t1 |-> t1, t2 |-> t2, s1 |-> s1, s2 |-> s2 ]

Deserialize ==
    /\ last.op = "legacy_input"
    /\ last' = [ last EXCEPT !.op = "deserialize" ] @@
               [ fromLegacy |-> from_dict(last.legacy, last.t1, last.s1),
                 fromModern |-> from_dict(last.modern, last.t2, last.s2) ]
    /\ UNCHANGED <<now, importTime, jobs, store, localFiles, nextJid, ops,
                   submitFailed>>

NextLegacy == Deserialize

SpecLegacy == InitLegacy /\ [][NextLegacy]_vars

---------------------------------------------------------------------------
(* VideoService.create_video on any input, the inputs outside the sets of   *)
(* src/config/settings.py included.                                         *)

\* src/config/settings.py:27-30
MIN_DURATION == 1
MAX_DURATION == 30
AVAILABLE_FPS == {24, 30, 60}
AVAILABLE_RESOLUTIONS == {"1280x720", "1920x1080"}

AnyPrompts == Prompts \cup {""}
AnyDurations == {MIN_DURATION - 1, MIN_DURATION, 6, MAX_DURATION, MAX_DURATION + 1}
AnyFps == AVAILABLE_FPS \cup {15}
AnyResolutions == AVAILABLE_RESOLUTIONS \cup {"640x480"}

InitCreate ==
    /\ now = 0 /\ importTime = 0 /\ jobs = <<>> /\ store = <<>> /\ localFiles = {}
    /\ nextJid = 1 /\ ops = 0 /\ submitFailed = {}
    /\ \E prompt \in AnyPrompts, duration \in AnyDurations, fps \in AnyFps,
          resolution \in AnyResolutions, answer \in SubmitAnswers(1) :
           last = [ op |-> "create_input", prompt |-> prompt, duration |-> duration,
                    fps |-> fps, resolution |-> resolution, answer |-> answer ]

CreateAny ==
    /\ last.op = "create_input"
    /\ create_video(last.prompt, last.duration, last.fps, last.resolution, 0,
                    last.answer)
    /\ nextJid' = nextJid + 1
    /\ ops' = ops + 1
    /\ UNCHANGED <<now, importTime, localFiles>>

NextCreate == CreateAny

SpecCreate == InitCreate /\ [][NextCreate]_vars

---------------------------------------------------------------------------
(* Two refreshes of one job at the same time.  Every run of the script      *)
(* (src/app.py:60-63) builds its own VideoService, so two sessions hold a   *)
(* record each for the job, read from the same file; the runs are threads   *)
(* of one process and share the store and the local files.  A refresh is    *)
(* three steps, each ending at a call of the outside: the poll with the     *)
(* change of status, the download with the change it leads to, the write    *)
(* of the file.  jobs[s] is the record session s holds; last.pc[s] is the   *)
(* step session s is at and last.answers[s] what the service answers it.    *)

ConcurrentArn == ArnOf(1)

ConcurrentPolls ==
    { [ completed |-> ListAnswer(<<Summary(OtherArn), Summary(ConcurrentArn)>>),
        failed |-> NoAnswer, direct |-> NoAnswer ],
      [ completed |-> ListAnswer(<<Summary(OtherArn)>>),
        failed |-> ListAnswer(<<SummaryWith(ConcurrentArn, <<"content policy violation">>)>>),
        direct |-> NoAnswer ],
      [ completed |-> ListAnswer(<<Summary(OtherArn)>>),
        failed |-> ListAnswer(<<>>),
        direct |-> [ ok |-> TRUE, response |-> [ status |-> "InProgress" ] ] ],
      [ completed |-> ErrorAnswer("ThrottlingException"),
        failed |-> NoAnswer, direct |-> NoAnswer ] }

ConcurrentDownloads ==
    { [ dlDirect |-> [ ok |-> TRUE ], dlListing |-> NoAnswer, dlSecond |-> NoAnswer ],
      [ dlDirect |-> ErrorAnswer("ThrottlingException"),
        dlListing |-> [ ok |-> TRUE, Contents |-> <<>> ], dlSecond |-> NoAnswer ],
      [ dlDirect |-> ErrorAnswer("ThrottlingException"),
        dlListing |-> ErrorAnswer("ThrottlingException"), dlSecond |-> NoAnswer ] }

\* the answers to one refresh; the download is asked only after a poll that
\* names the job in the completed listing
ConcurrentAnswers ==
    { [ poll |-> p, download |-> d ] :
        p \in ConcurrentPolls,
        d \in ConcurrentDownloads } \
    { a \in [ poll : ConcurrentPolls, download : ConcurrentDownloads ] :
        /\ ~(a.poll.completed.ok /\ Len(a.poll.completed.asyncInvokeSummaries) = 2)
        /\ ~a.download.dlDirect.ok }

ConcurrentJob ==
    Submitted(VideoJob(1, "A sunset over mountains", VideoConfig(6, 24, "1280x720", 0), 0),
              [ invocationArn |-> ConcurrentArn ])

InitConcurrent ==
    /\ now = 1 /\ importTime = 0 /\ localFiles = {}
    /\ nextJid = 2 /\ ops = 0 /\ submitFailed = {}
    /\ store = _save_job(<<>>, ConcurrentJob)
    /\ jobs = << from_dict(store[JobFile(ConcurrentJob)], now, 0),
                from_dict(store[JobFile(ConcurrentJob)], now, 0) >>
    /\ \E a1 \in ConcurrentAnswers, a2 \in ConcurrentAnswers :
           last = [ op |-> "concurrent", pc |-> <<"poll", "poll">>,
                    answers |-> <<a1, a2>>, overlapped |-> FALSE ]

\* session s moves to the step next; the refreshes overlap when the other
\* session is in the middle of its own
Advance(s, next) ==
    last' = [ last EXCEPT !.pc[s] = next,
                          !.overlapped = @ \/ last.pc[3 - s] \in {"download", "persist"} ]

\* src/services/video_service.py:80-91 and 97-99, up to the call of
\* download_video or _save_job
RefreshPoll(s) ==
    /\ last.pc[s] = "poll"
    /\ LET job == jobs[s]
           a == last.answers[s].poll
           p == aws_get_job_status(job.invocation_arn, a.completed, a.failed, a.direct)
       IN  IF p.raised = "VideoGenerationError"
           THEN /\ jobs' = [ jobs EXCEPT ![s] = Failing(job, p.message) ]
                /\ Advance(s, "persist")
           ELSE IF p.raised # "no" \/ ~StatusChanged(p.info.status, job)
           THEN /\ jobs' = jobs
                /\ Advance(s, "done")
           ELSE IF p.info.status = "Completed"
           THEN /\ jobs' = [ jobs EXCEPT ![s] = Completing(job, now) ]
                /\ Advance(s, "download")
           ELSE IF p.info.status = "Failed"
           THEN /\ jobs' = [ jobs EXCEPT ![s] = FailingWith(job, p.info) ]
                /\ Advance(s, "persist")
           ELSE /\ jobs' = [ jobs EXCEPT ![s].status = p.info.status ]
                /\ Advance(s, "persist")
    /\ UNCHANGED <<now, importTime, store, localFiles, nextJid, ops, submitFailed>>

\* src/services/video_service.py:89 and 97-99: download_video and what
\* follows it, up to the call of _save_job
RefreshDownload(s) ==
    /\ last.pc[s] = "download"
    /\ LET job == jobs[s]
           a == last.answers[s].download
           d == download_video(job, localFiles, a.dlDirect, a.dlListing, a.dlSecond)
       IN  /\ localFiles' = d.files
           /\ IF d.raised = "VideoGenerationError"
              THEN /\ jobs' = [ jobs EXCEPT ![s] = Failing(job, d.message) ]
                   /\ Advance(s, "persist")
              ELSE IF d.raised # "no"
              THEN /\ jobs' = jobs
                   /\ Advance(s, "done")
              ELSE /\ jobs' = [ jobs EXCEPT ![s].output_path = d.value ]
                   /\ Advance(s, "persist")
    /\ UNCHANGED <<now, importTime, store, nextJid, ops, submitFailed>>

\* src/services/video_service.py:93 and 99
RefreshPersist(s) ==
    /\ last.pc[s] = "persist"
    /\ store' = _save_job(store, jobs[s])
    /\ Advance(s, "done")
    /\ UNCHANGED <<now, importTime, jobs, localFiles, nextJid, ops, submitFailed>>

NextConcurrent ==
    \E s \in 1..2 :
        \/ RefreshPoll(s)
        \/ RefreshDownload(s)
        \/ RefreshPersist(s)

SpecConcurrent == InitConcurrent /\ [][NextConcurrent]_vars

---------------------------------------------------------------------------
(* VideoService._save_job step by step: open(job_file, 'w') empties the     *)
(* file, json.dump writes the text piece by piece, and leaving the with     *)
(* statement closes the file.  The process can die between the steps; the   *)
(* next process reads the store as it was left.                             *)

\* the file of a job that was created and stored as InProgress
PersistOldJobs ==
    { Submitted(VideoJob(1, "A sunset over mountains",
                         VideoConfig(6, fps, "1280x720", 0), 0),
                [ invocationArn |-> ArnOf(1) ]) : fps \in AVAILABLE_FPS }

\* the records a refresh of such a job persists
PersistNewJobs(old) ==
    { [ Completing(old, t) EXCEPT !.output_path = path ] :
        t \in 0..MaxTime, path \in {None, Some(LocalFile(InvocationIds[1]))} } \cup
    { Failing(old, <<"Error checking job status: ", e>>) : e \in ClientErrors } \cup
    { FailingWith(old, [ status |-> "Failed" ]) }

\* the file right after open(job_file, 'w'), and with a part of the text
EmptyFile == [ text |-> <<>> ]
PartialFile(job) == [ text |-> <<"{", "prompt", job.prompt>> ]

WriteFile(st, job, content) ==
    [ f \in DOMAIN st \cup {JobFile(job)} |->
        IF f = JobFile(job) THEN content ELSE st[f] ]

InitPersist ==
    /\ now = MaxTime /\ importTime = 0 /\ localFiles = {}
    /\ nextJid = 2 /\ ops = 0 /\ submitFailed = {}
    /\ \E old \in PersistOldJobs :
           /\ store = _save_job(<<>>, old)
           /\ \E new \in PersistNewJobs(old) : jobs = <<new>>
           /\ last = [ op |-> "persist", pc |-> "open", old |-> old ]

\* src/services/video_service.py:120
PersistOpen ==
    /\ last.pc = "open"
    /\ store' = WriteFile(store, jobs[1], EmptyFile)
    /\ last' = [ last EXCEPT !.pc = "write" ]
    /\ UNCHANGED <<now, importTime, jobs, localFiles, nextJid, ops, submitFailed>>

\* src/services/video_service.py:121, a part of the text written
PersistWrite ==
    /\ last.pc = "write"
    /\ store' = WriteFile(store, jobs[1], PartialFile(jobs[1]))
    /\ last' = [ last EXCEPT !.pc = "close" ]
    /\ UNCHANGED <<now, importTime, jobs, localFiles, nextJid, ops, submitFailed>>

\* src/services/video_service.py:121, the rest of the text, and the end of
\* the with statement
PersistClose ==
    /\ last.pc = "close"
    /\ store' = WriteFile(store, jobs[1], to_dict(jobs[1]))
    /\ last' = [ last EXCEPT !.pc = "done" ]
    /\ UNCHANGED <<now, importTime, jobs, localFiles, nextJid, ops, submitFailed>>

\* the process dies before, in the middle of or after the write, and a new
\* process builds a VideoService on the store
CrashAndRestart ==
    /\ last.pc \in {"open", "write", "close", "done"}
    /\ \E order \in ListDirs(store) : _load_existing_jobs(TRUE, order)
    /\ last' = [ last EXCEPT !.pc = "restarted" ] @@
               [ diedAt |-> last.pc, new |-> jobs[1] ]
    /\ UNCHANGED <<now, importTime, store, localFiles, nextJid, ops, submitFailed>>

NextPersist ==
    \/ PersistOpen
    \/ PersistWrite
    \/ PersistClose
    \/ CrashAndRestart

SpecPersist == InitPersist /\ [][NextPersist]_vars

---------------------------------------------------------------------------
(* Refreshes without end.  Two jobs are held and stored as InProgress; the  *)
(* service comes to report the first as Completed and the second as Failed. *)
(* For the first MaxOps refreshes a poll may also fail or report            *)
(* InProgress; after them every poll succeeds and reports the terminal      *)
(* status.  The storage service answers a download as it likes.  The        *)
(* process may die in a refresh before the file is written, and the next    *)
(* process reads the store.                                                 *)

LiveJobs ==
    << Submitted(VideoJob(1, "A sunset over mountains",
                          VideoConfig(6, 24, "1280x720", 0), 0),
                 [ invocationArn |-> ArnOf(1) ]),
       Submitted(VideoJob(2, "A sunset over mountains",
                          VideoConfig(6, 24, "1280x720", 0), TicksPerSecond),
                 [ invocationArn |-> ArnOf(2) ]) >>

\* the terminal status the service reports for the job
TerminalOf(job) == IF job.jid = 1 THEN "Completed" ELSE "Failed"

TerminalPoll(job) ==
    IF TerminalOf(job) = "Completed"
    THEN [ completed |-> ListAnswer(<<Summary(OtherArn), Summary(Val(job.invocation_arn))>>),
           failed |-> NoAnswer, direct |-> NoAnswer ]
    ELSE [ completed |-> ListAnswer(<<Summary(OtherArn)>>),
           failed |-> ListAnswer(<<SummaryWith(Val(job.invocation_arn),
                                               <<"content policy violation">>)>>),
           direct |-> NoAnswer ]

EarlyPolls ==
    { [ completed |-> ListAnswer(<<Summary(OtherArn)>>), failed |-> ListAnswer(<<>>),
        direct |-> [ ok |-> TRUE, response |-> [ status |-> "InProgress" ] ] ],
      [ completed |-> ErrorAnswer("ThrottlingException"),
        failed |-> NoAnswer, direct |-> NoAnswer ] }

LivePolls(job) ==
    {TerminalPoll(job)} \cup (IF ops < MaxOps THEN EarlyPolls ELSE {})

InitLive ==
    /\ now = 1 /\ importTime = 0 /\ localFiles = {}
    /\ nextJid = 3 /\ ops = 0 /\ submitFailed = {}
    /\ jobs = LiveJobs
    /\ store = _save_job(_save_job(<<>>, LiveJobs[1]), LiveJobs[2])
    /\ last = [ op |-> "live" ]

\* a refresh of the job j
LiveRefresh(j) ==
    /\ \E i \in 1..Len(jobs) :
         /\ jobs[i].jid = j
         /\ \E poll \in LivePolls(jobs[i]) :
            \E dl \in IfAsked(poll = TerminalPoll(jobs[i]) /\ TerminalOf(jobs[i]) = "Completed",
                              ConcurrentDownloads) :
                get_job_status(i, poll.completed, poll.failed, poll.direct,
                               dl.dlDirect, dl.dlListing, dl.dlSecond)
    /\ ops' = IF ops < MaxOps THEN ops + 1 ELSE ops
    /\ UNCHANGED <<now, importTime, nextJid, submitFailed>>

\* the process dies in a refresh of the job j, after the status changed in
\* memory (and the artifact was or was not downloaded) and before the file
\* is written; a new process builds a VideoService on the store
LiveCrash(j) ==
    /\ \E i \in 1..Len(jobs) :
         /\ jobs[i].jid = j
         /\ localFiles' \in
              {localFiles} \cup
              { localFiles \cup {InvocationId(Val(jobs[i].invocation_arn))} :
                  x \in IF TerminalOf(jobs[i]) = "Completed" THEN {1} ELSE {} }
    /\ \E order \in ListDirs(store) : _load_existing_jobs(TRUE, order)
    /\ last' = [ op |-> "crash" ]
    /\ UNCHANGED <<now, importTime, store, nextJid, ops, submitFailed>>

NextLive ==
    \E j \in 1..2 :
        \/ LiveRefresh(j)
        \/ LiveCrash(j)

\* each job is refreshed again and again
SpecLive ==
    /\ InitLive
    /\ [][NextLive]_vars
    /\ WF_vars(LiveRefresh(1))
    /\ WF_vars(LiveRefresh(2))

\* one whole refresh of the record job, with nothing between its steps:
\* src/services/video_service.py:67-101
WholeRefresh(job, st, files, t, a) ==
    LET p == aws_get_job_status(job.invocation_arn, a.poll.completed, a.poll.failed,
                                a.poll.direct)
        d == download_video(job, files, a.download.dlDirect, a.download.dlListing,
                            a.download.dlSecond)
        o == RefreshOutcome(job, t, p, d)
    IN  [ job |-> o.job,
          store |-> IF o.saved THEN _save_job(st, o.job) ELSE st,
          files |-> IF ReachesDownload(job, p) THEN d.files ELSE files ]

\* the refresh of session first and then the refresh of the other session,
\* each on the record its session read from the store
OneAfterTheOther(first) ==
    LET second == 3 - first
        held == from_dict(to_dict(ConcurrentJob), 1, 0)
        st0 == _save_job(<<>>, ConcurrentJob)
        r1 == WholeRefresh(held, st0, {}, 1, last.answers[first])
        r2 == WholeRefresh(held, r1.store, r1.files, 1, last.answers[second])
    IN  [ jobs |-> [ s \in 1..2 |-> IF s = first THEN r1.job ELSE r2.job ],
          store |-> r2.store,
          files |-> r2.files ]

---------------------------------------------------------------------------
(* Properties *)

Terminal(status) == status \in {"Completed", "Failed"}

\* a step of Refresh, which refreshes jobs[last'.index]
RefreshStep == ops' # ops /\ last'.op = "get_job_status"

\* C1: the status of a job only moves along Pending -> InProgress ->
\* {Completed, Failed}: a job that is Completed or Failed keeps its status in
\* every step, and no job goes back to Pending.
C1_TerminalStatusNeverChanges ==
    [][\A i \in DOMAIN jobs : \A k \in DOMAIN jobs' :
          jobs'[k].jid = jobs[i].jid =>
            /\ Terminal(jobs[i].status) => jobs'[k].status = jobs[i].status
            /\ jobs[i].status # "Pending" => jobs'[k].status # "Pending"]_vars

\* C2: a refresh of a job that is Completed or Failed asks the adapter
\* nothing, returns the stored status and changes neither the record nor the
\* store.
C2_RefreshOfTerminalIsNoOp ==
    [][RefreshStep /\ Terminal(jobs[last'.index].status) =>
          /\ ~last'.polled
          /\ last'.downloadRaised = "not called"
          /\ last'.raised = "no"
          /\ last'.result = jobs[last'.index].status
          /\ jobs' = jobs
          /\ store' = store]_vars

\* C3: a refresh whose status poll fails with a status-check error raises
\* VideoGenerationError and leaves the record and the store as they were.
C3_StatusCheckErrorMutatesNothing ==
    [][RefreshStep /\ last'.pollRaised = "VideoGenerationError" =>
          /\ last'.raised = "VideoGenerationError"
          /\ jobs' = jobs
          /\ store' = store]_vars

\* C4: a refresh of an InProgress job that observes Completed and gets no
\* artifact (not found, or an error of the storage service) ends with the
\* record Completed and without output path, never Failed.
C4_ArtifactFailureIsNonFatal ==
    [][/\ RefreshStep
       /\ jobs[last'.index].status = "InProgress"
       /\ last'.pollStatus = "Completed"
       /\ last'.downloadRaised \in {"no", "VideoGenerationError"}
       /\ last'.downloadValue = None
       => /\ jobs'[last'.index].status = "Completed"
          /\ jobs'[last'.index].output_path = None]_vars

\* C5: every record, in memory and persisted, has an output location if and
\* only if its status is Completed.
C5_OutputPathIffCompleted ==
    /\ \A i \in DOMAIN jobs :
         jobs[i].output_path # None <=> jobs[i].status = "Completed"
    /\ \A f \in DOMAIN store :
         store[f].output_path # None <=> store[f].status = "Completed"

\* C6: every record, in memory and persisted, has an error detail if and only
\* if its status is Failed.
C6_ErrorMessageIffFailed ==
    /\ \A i \in DOMAIN jobs :
         jobs[i].error_message # None <=> jobs[i].status = "Failed"
    /\ \A f \in DOMAIN store :
         store[f].error_message # None <=> store[f].status = "Failed"

\* C7: a record lacks the external request identifier if and only if its
\* submission failed; such a record is Failed, so every InProgress or
\* Completed record and every record that failed in a refresh has one.
LacksIdentifierIffSubmitFailed(r) ==
    /\ r.invocation_arn = None <=> r.jid \in submitFailed
    /\ r.invocation_arn = None => r.status = "Failed"

C7_IdentifierAbsentIffSubmitFailed ==
    /\ \A i \in DOMAIN jobs : LacksIdentifierIffSubmitFailed(jobs[i])
    /\ \A f \in DOMAIN store : LacksIdentifierIffSubmitFailed(store[f])

\* a job whose submission failed was loaded from the store and refreshed, next
\* to a job that has an identifier
C7_Witness ==
    /\ last.op = "get_job_status"
    /\ jobs[last.index].invocation_arn = None
    /\ \E i \in DOMAIN jobs : jobs[i].invocation_arn # None

\* C8: when the submission succeeds with identifier X, create_video returns a
\* record that is InProgress, has invocation_arn X, no output path, no error
\* detail and no completed-at, is held by the service and is persisted.
C8_CreateSuccess ==
    last.op = "create_video" /\ last.answer.ok =>
        /\ last.raised = "no"
        /\ last.job.status = "InProgress"
        /\ last.job.invocation_arn = Some(last.answer.invocationArn)
        /\ last.job.output_path = None
        /\ last.job.error_message = None
        /\ last.job.completed_at = None
        /\ jobs # <<>> /\ jobs[Len(jobs)] = last.job
        /\ JobFile(last.job) \in DOMAIN store
        /\ store[JobFile(last.job)] = to_dict(last.job)

C8_Witness ==
    last.op = "create_video" /\ last.answer.ok /\ last.job.jid = 2

\* C9: when the submission fails, create_video sets the record Failed with an
\* error detail, persists it and raises VideoGenerationError.
C9_CreateFailure ==
    last.op = "create_video" /\ ~last.answer.ok =>
        /\ last.raised = "VideoGenerationError"
        /\ last.job.status = "Failed"
        /\ last.job.error_message # None
        /\ last.job.invocation_arn = None
        /\ JobFile(last.job) \in DOMAIN store
        /\ store[JobFile(last.job)] = to_dict(last.job)
        /\ \A i \in DOMAIN jobs : jobs[i].jid # last.job.jid

C9_Witness ==
    last.op = "create_video" /\ ~last.answer.ok /\ jobs # <<>>

\* C10: a refresh of an InProgress job whose poll reports Completed and whose
\* artifact lookup returns the path P leaves the record Completed, with
\* completed_at set to the time of the refresh and output_path P, persisted in
\* that state, and returns Completed.
C10_RefreshToCompleted ==
    [][/\ RefreshStep
       /\ jobs[last'.index].status = "InProgress"
       /\ last'.pollStatus = "Completed"
       /\ last'.downloadRaised = "no"
       /\ last'.downloadValue # None
       => LET job == jobs'[last'.index]
          IN  /\ job.status = "Completed"
              /\ job.completed_at = Some(now)
              /\ job.output_path = last'.downloadValue
              /\ job = [ jobs[last'.index] EXCEPT !.status = "Completed",
                           !.completed_at = Some(now),
                           !.output_path = last'.downloadValue ]
              /\ JobFile(job) \in DOMAIN store'
              /\ store'[JobFile(job)] = to_dict(job)
              /\ last'.raised = "no"
              /\ last'.result = "Completed"]_vars

C10_Witness ==
    /\ last.op = "get_job_status"
    /\ last.statusBefore = "InProgress"
    /\ last.pollStatus = "Completed"
    /\ last.downloadRaised = "no"
    /\ last.downloadValue # None
    /\ jobs[last.index].status = "Completed"

\* C11: a refresh of an InProgress job whose poll reports Failed leaves the
\* record Failed with error_message the reason the service gave, or 'Unknown
\* error' when it gave none, changes no other field (output_path and
\* completed_at stay as they were, absent when they were absent) and persists
\* the record in that state.
C11_RefreshToFailed ==
    [][/\ RefreshStep
       /\ jobs[last'.index].status = "InProgress"
       /\ last'.pollStatus = "Failed"
       => LET before == jobs[last'.index]
              job == jobs'[last'.index]
          IN  /\ job = [ before EXCEPT !.status = "Failed",
                           !.error_message = IF last'.serviceReason # None
                                             THEN last'.serviceReason
                                             ELSE Some(UnknownError) ]
              /\ before.output_path = None => job.output_path = None
              /\ before.completed_at = None => job.completed_at = None
              /\ JobFile(job) \in DOMAIN store'
              /\ store'[JobFile(job)] = to_dict(job)
              /\ last'.raised = "no"
              /\ last'.result = "Failed"]_vars

C11_Witness ==
    /\ last.op = "get_job_status"
    /\ last.statusBefore = "InProgress"
    /\ last.pollStatus = "Failed"
    /\ last.serviceReason \in { Some(r) : r \in FailureReasons }
    /\ jobs[last.index].error_message = last.serviceReason
    /\ jobs[last.index].output_path = None

\* the listing was answered and names the identifier arn
InListing(answer, arn) ==
    /\ answer.ok
    /\ \E k \in 1..Len(answer.asyncInvokeSummaries) :
         Some(answer.asyncInvokeSummaries[k].invocationArn) = arn

\* the poll with the outcome out made the request named name
Asked(out, name) == \E k \in 1..Len(out.calls) : out.calls[k][1] = name

\* C12: the poll reports Completed for an identifier in the completed listing
\* (also when the failed listing names it too); else Failed, with the listed
\* reason or 'Unknown error', for an identifier in the failed listing; else
\* the answer of the direct lookup, which is asked only when neither listing
\* names the identifier.
C12_PollPriorityOrder ==
    last.op = "poll" =>
        LET arn == last.arn
            out == last.out
        IN  /\ InListing(last.completed, arn) =>
                 /\ out.raised = "no"
                 /\ out.info.status = "Completed"
                 /\ ~Asked(out, "list_failed")
            /\ /\ last.completed.ok /\ ~InListing(last.completed, arn)
               /\ InListing(last.failed, arn)
               => /\ out.raised = "no"
                  /\ out.info.status = "Failed"
                  /\ out.info.failureMessage =
                        IF ServiceReason(arn, last.failed, last.direct) # None
                        THEN Val(ServiceReason(arn, last.failed, last.direct))
                        ELSE UnknownError
            /\ /\ last.completed.ok /\ ~InListing(last.completed, arn)
               /\ last.failed.ok /\ ~InListing(last.failed, arn)
               /\ arn # None /\ last.direct.ok
               => /\ out.raised = "no"
                  /\ out.info = last.direct.response
                  /\ Asked(out, "get_async_invoke")
            /\ Asked(out, "get_async_invoke") =>
                 /\ last.completed.ok /\ ~InListing(last.completed, arn)
                 /\ last.failed.ok /\ ~InListing(last.failed, arn)

\* an identifier named by both listings was polled, and one named by the
\* failed listing only
C12_Witness ==
    /\ last.op = "poll"
    /\ InListing(last.completed, last.arn)
    /\ InListing(last.failed, last.arn)
    /\ last.out.info.status = "Completed"

\* C13: when neither listing names the identifier and the direct lookup
\* answers not-found, the poll reports Completed and raises nothing; it raises
\* VideoGenerationError only when a request it made failed with an error other
\* than not-found.
C13_NotFoundIsCompleted ==
    last.op = "poll" =>
        LET arn == last.arn
            out == last.out
            neither == /\ last.completed.ok /\ ~InListing(last.completed, arn)
                       /\ last.failed.ok /\ ~InListing(last.failed, arn)
        IN  /\ neither /\ arn # None /\ ~last.direct.ok /\ last.direct.error = NotFoundError
               => /\ out.raised = "no"
                  /\ out.info.status = "Completed"
            /\ out.raised = "VideoGenerationError" =>
                 \/ ~last.completed.ok
                 \/ /\ last.completed.ok /\ ~InListing(last.completed, arn)
                    /\ ~last.failed.ok
                 \/ /\ neither /\ arn # None
                    /\ ~last.direct.ok /\ last.direct.error # NotFoundError

C13_Witness ==
    /\ last.op = "poll"
    /\ Asked(last.out, "get_async_invoke")
    /\ ~last.direct.ok /\ last.direct.error = NotFoundError
    /\ last.out.raised = "no"

\* C14: without a local copy, the lookup first asks for the deterministic key
\* {id}/output.mp4; only when that fails it lists the objects under the prefix
\* id and downloads the first listed key that ends with .mp4; when the direct
\* download fails and no listed key ends with .mp4 it returns None and raises
\* nothing.
C14_LocateArtifactOrder ==
    last.op = "download" /\ last.job.invocation_arn # None =>
        LET id == InvocationId(Val(last.job.invocation_arn))
            out == last.out
            contents == last.listing.Contents
            mp4s == { k \in 1..Len(contents) : contents[k][2] = "mp4" }
        IN  id \notin last.files =>
            /\ out.calls # <<>>
            /\ out.calls[1] = <<"download_file", Key(id, "output", "mp4")>>
            /\ last.direct.ok =>
                 /\ Len(out.calls) = 1
                 /\ out.raised = "no"
                 /\ out.value = Some(LocalFile(id))
            /\ ~last.direct.ok =>
                 /\ Len(out.calls) >= 2
                 /\ out.calls[2] = <<"list_objects_v2", id>>
            /\ ~last.direct.ok /\ last.listing.ok /\ mp4s = {} =>
                 /\ Len(out.calls) = 2
                 /\ out.raised = "no"
                 /\ out.value = None
                 /\ localFiles = last.files
            /\ ~last.direct.ok /\ last.listing.ok /\ mp4s # {} =>
                 LET k == CHOOSE m \in mp4s : \A n \in mp4s : m <= n
                 IN  /\ Len(out.calls) = 3
                     /\ out.calls[3] = <<"download_file",
                                         Key(id, contents[k][1], contents[k][2])>>
                     /\ last.second.ok =>
                          /\ out.raised = "no"
                          /\ out.value = Some(LocalFile(id))

\* the direct download failed and the listing named an object that is no
\* video before two videos: the first video was downloaded
C14_Witness ==
    /\ last.op = "download"
    /\ ~last.direct.ok /\ last.listing.ok
    /\ Len(last.listing.Contents) = 3
    /\ Len(last.out.calls) = 3
    /\ last.out.calls[3][2].name = "video"
    /\ last.out.raised = "no"

\* the direct download failed and the listing named no video
C14_WitnessAbsent ==
    /\ last.op = "download"
    /\ ~last.direct.ok /\ last.listing.ok
    /\ Len(last.listing.Contents) = 1
    /\ last.out.value = None

\* C15: when the local copy of a job's artifact exists, the lookup returns its
\* path and asks the storage service nothing; a local copy stays, and an
\* artifact is transferred only when there is no local copy of it, so at most
\* once over any sequence of refreshes.
C15_LocalCopyShortCircuits ==
    [][/\ localFiles \subseteq localFiles'
       /\ RefreshStep /\ last'.downloadRaised # "not called" =>
            LET id == InvocationId(Val(jobs[last'.index].invocation_arn))
            IN  /\ id \in localFiles =>
                     /\ last'.storageCalls = 0
                     /\ last'.downloadRaised = "no"
                     /\ last'.downloadValue = Some(LocalFile(id))
                     /\ localFiles' = localFiles
                /\ last'.storageCalls > 0 /\ last'.downloadValue # None =>
                     /\ id \notin localFiles
                     /\ localFiles' = localFiles \cup {id}]_vars

\* a job whose artifact was downloaded became Completed again, and the lookup
\* found the local copy
C15_Witness ==
    /\ last.op = "get_job_status"
    /\ last.downloadRaised = "no"
    /\ last.downloadValue # None
    /\ last.storageCalls = 0
    /\ InvocationId(Val(jobs[last.index].invocation_arn)) \in localFiles

\* the files of the store that hold a well-formed unit, in the order of the scan
GoodFiles(order) == SelectSeq(order, LAMBDA f : store[f] \in GoodUnits)

\* C16: the load reads each file on its own: whatever mix of well-formed and
\* malformed files the store holds, it raises nothing and the service holds
\* exactly the records of the well-formed files, in the order of the scan; when
\* the storage root does not exist it holds no job and raises nothing.
C16_LoadSkipsMalformedUnits ==
    last.op = "load" =>
        /\ last.raised = "no"
        /\ ~last.exists => jobs = <<>>
        /\ last.exists =>
             /\ Len(jobs) = Len(GoodFiles(last.order))
             /\ \A k \in 1..Len(jobs) :
                    LET unit == store[GoodFiles(last.order)[k]]
                    IN  /\ jobs[k].jid = unit.jid
                        /\ jobs[k].prompt = unit.prompt
                        /\ unit \in { to_dict(j) : j \in LoadJobs } =>
                             to_dict(jobs[k]) = unit

\* a malformed file between two well-formed ones was passed over
C16_Witness ==
    /\ last.op = "load"
    /\ Len(last.order) = 3
    /\ store[last.order[1]] \in GoodUnits
    /\ store[last.order[2]] \in BadUnits
    /\ store[last.order[3]] \in GoodUnits
    /\ Len(jobs) = 2

\* the storage root did not exist
C16_WitnessNoRoot == last.op = "load" /\ ~last.exists /\ jobs = <<>>

CreateStep == ops' # ops /\ last'.op = "create_video"

\* C17: a persisted unit is never deleted and never replaced by the unit of
\* another job: every file of the store stays, and stays the file of the job
\* it held.
C17_PersistedUnitsAreNeverReplaced ==
    [][\A f \in DOMAIN store :
           f \in DOMAIN store' /\ store'[f].jid = store[f].jid]_vars

\* C18: the record create_video builds carries the time of that call as its
\* created_at.
C18_CreatedAtIsTimeOfCreate ==
    [][CreateStep => last'.job.created_at = now]_vars

\* C19: get_jobs returns a permutation of the held records, ordered by
\* created_at descending, with records of equal created_at in the order they
\* have in the held list; the held list is not modified.
C19_ListIsStableDescendingPermutation ==
    [][last'.op = "get_jobs" =>
         LET r == last'.result
         IN  /\ Len(r) = Len(jobs)
             /\ \A k \in 1..Len(jobs) : \E m \in 1..Len(r) : r[m] = jobs[k]
             /\ \A k, m \in 1..Len(r) : k # m => r[k].jid # r[m].jid
             /\ \A k \in 1..(Len(r) - 1) : r[k].created_at >= r[k + 1].created_at
             /\ \A k, m \in 1..Len(r) :
                    k < m /\ r[k].created_at = r[m].created_at => r[k].jid < r[m].jid
             /\ jobs' = jobs]_vars

\* a list of four records with a tie was put into another order
C19_Witness ==
    /\ last.op = "get_jobs"
    /\ Len(jobs) = MaxListed
    /\ last.result # jobs
    /\ \E k \in 1..(Len(jobs) - 1) :
           last.result[k].created_at = last.result[k + 1].created_at

\* C20: every job create_video persisted, a job whose submission failed
\* included, is in the result of get_jobs.
C20_ListingHoldsEveryPersistedJob ==
    [][CreateStep =>
         \E k \in 1..Len(get_jobs(jobs')) :
             get_jobs(jobs')[k].jid = last'.job.jid]_vars

\* C21: a record written by to_dict and read back by from_dict is the record it
\* was, in every field.
C21_SerializationIsLossless ==
    last.op = "round_trip" =>
        LET r == jobs[1]
            b == last.back
        IN  /\ b.prompt = r.prompt
            /\ b.config.duration = r.config.duration
            /\ b.config.fps = r.config.fps
            /\ b.config.resolution = r.config.resolution
            /\ b.config.seed = r.config.seed
            /\ b.invocation_arn = r.invocation_arn
            /\ b.status = r.status
            /\ b.created_at = r.created_at
            /\ b.completed_at = r.completed_at
            /\ b.output_path = r.output_path
            /\ b.error_message = r.error_message

\* a record with every optional field set, created between two whole seconds,
\* went through the round trip
C21_Witness ==
    /\ last.op = "round_trip"
    /\ jobs[1].status = "Completed"
    /\ jobs[1].created_at % TicksPerSecond # 0
    /\ jobs[1].invocation_arn # None
    /\ jobs[1].completed_at # None
    /\ jobs[1].output_path # None
    /\ jobs[1].error_message # None
    /\ last.back.completed_at # None

\* C22 as stated: reading a record written with the older keys gives a record
\* equal in every field to reading the record with the present keys that
\* carries the same values.
C22_LegacyEqualsModern ==
    last.op = "deserialize" => last.fromLegacy = last.fromModern

\* C22 amended: the two records read are equal in prompt, duration, fps,
\* resolution, identifier, status, completed_at, output path and error detail;
\* created_at and seed are equal when the stored records carry them, and are
\* otherwise the clock and the seed each call draws.
C22_LegacyEqualsModernInCarriedFields ==
    last.op = "deserialize" =>
        LET a == last.fromLegacy
            b == last.fromModern
        IN  /\ a.prompt = b.prompt
            /\ a.config.duration = b.config.duration
            /\ a.config.fps = b.config.fps
            /\ a.config.resolution = b.config.resolution
            /\ a.invocation_arn = b.invocation_arn
            /\ a.invocation_arn = Some(last.legacy.response.invocationArn)
            /\ a.status = b.status
            /\ a.completed_at = b.completed_at
            /\ a.output_path = b.output_path
            /\ a.error_message = b.error_message
            /\ last.full \/ last.t1 = last.t2 => a.created_at = b.created_at
            /\ last.stored # None \/ last.s1 = last.s2 => a.config.seed = b.config.seed
            /\ ~last.full => a.created_at = last.t1 /\ b.created_at = last.t2
            /\ last.stored = None => a.config.seed = last.s1 /\ b.config.seed = last.s2

\* a record of the older application, without created_at, was read at two
\* different times
C22_Witness ==
    /\ last.op = "deserialize"
    /\ ~last.full
    /\ last.t1 # last.t2
    /\ last.fromLegacy.invocation_arn # None
    /\ last.fromLegacy.created_at # last.fromModern.created_at

ValidInput(job) ==
    /\ job.prompt # ""
    /\ job.config.duration \in MIN_DURATION..MAX_DURATION
    /\ job.config.fps \in AVAILABLE_FPS
    /\ job.config.resolution \in AVAILABLE_RESOLUTIONS

\* C23: create_video with a duration outside [1, 30], an fps outside
\* {24, 30, 60}, a resolution outside the two allowed ones or an empty prompt
\* fails with InvalidConfig and submits nothing: no record is held or stored.
C23_InvalidInputIsRejected ==
    last.op = "create_video" /\ ~ValidInput(last.job) =>
        /\ last.raised = "InvalidConfig"
        /\ jobs = <<>>
        /\ store = <<>>

BothDone == last.op = "concurrent" /\ last.pc = <<"done", "done">>

EqualsOneAfterTheOther(first) ==
    /\ jobs = OneAfterTheOther(first).jobs
    /\ store = OneAfterTheOther(first).store
    /\ localFiles = OneAfterTheOther(first).files

\* two refreshes whose steps do not overlap leave what the two whole
\* refreshes leave, in the order they ran
StepsMakeAWholeRefresh ==
    BothDone /\ ~last.overlapped =>
        EqualsOneAfterTheOther(1) \/ EqualsOneAfterTheOther(2)

\* C24: however the steps of two refreshes of one job interleave, the records
\* held and the file stored at the end are those that the two refreshes, run
\* one after the other in one of the two orders, leave.
C24_ConcurrentRefreshesAreSerializable ==
    BothDone => EqualsOneAfterTheOther(1) \/ EqualsOneAfterTheOther(2)

\* C25: over the life of a record, completed_at and the output path are
\* assigned only in a step that changes the status to Completed, the error
\* detail only in a step that changes the status to Failed, and none of the
\* three is overwritten or cleared once it is assigned.
C25_OutcomeFieldsAssignedOnce ==
    [][\A i \in DOMAIN jobs : \A k \in DOMAIN jobs' :
          jobs'[k].jid = jobs[i].jid =>
            LET toCompleted == jobs[i].status # "Completed" /\ jobs'[k].status = "Completed"
                toFailed == jobs[i].status # "Failed" /\ jobs'[k].status = "Failed"
            IN  /\ jobs[i].completed_at # None =>
                     jobs'[k].completed_at = jobs[i].completed_at
                /\ jobs[i].output_path # None =>
                     jobs'[k].output_path = jobs[i].output_path
                /\ jobs[i].error_message # None =>
                     jobs'[k].error_message = jobs[i].error_message
                /\ jobs'[k].completed_at # jobs[i].completed_at => toCompleted
                /\ jobs'[k].output_path # jobs[i].output_path => toCompleted
                /\ jobs'[k].error_message # jobs[i].error_message => toFailed]_vars

\* the three steps of the write leave what _save_job leaves
StepsMakeAWholeSave ==
    last.op = "persist" /\ last.pc = "done" =>
        store = _save_job(_save_job(<<>>, last.old), jobs[1])

\* C26: a unit is written as a whole: the store never holds a unit that cannot
\* be read, and after a crash at any point of a persist the job is read by
\* the next load, in its old or in its new state.
C26_PersistIsAtomic ==
    last.op = "persist" =>
        /\ \A f \in DOMAIN store : IsJson(store[f])
        /\ last.pc = "restarted" =>
             \E k \in 1..Len(jobs) : jobs[k] \in {last.old, last.new}

\* C27: a refresh of an InProgress record whose poll answers InProgress
\* returns that status and changes nothing: the record and the store stay as
\* they are, download_video is not called and nothing is persisted.
C27_UnchangedStatusIsNoOp ==
    [][/\ RefreshStep
       /\ jobs[last'.index].status = "InProgress"
       /\ last'.pollRaised = "no"
       /\ last'.pollStatus = "InProgress"
       => /\ last'.raised = "no"
          /\ last'.result = "InProgress"
          /\ jobs' = jobs
          /\ store' = store
          /\ localFiles' = localFiles
          /\ last'.downloadRaised = "not called"
          /\ last'.storageCalls = 0
          /\ ~last'.saved]_vars

\* an InProgress record was refreshed and the service answered InProgress
C27_Witness ==
    /\ last.op = "get_job_status"
    /\ last.statusBefore = "InProgress"
    /\ last.pollRaised = "no"
    /\ last.pollStatus = "InProgress"
    /\ jobs[last.index].status = "InProgress"

Visible(status) == status \in {"InProgress", "Completed", "Failed"}

\* C28: Pending is a status only inside create_video: every record that
\* create_video persists or holds, and every record held, stored or listed
\* after any operations, is InProgress, Completed or Failed.
C28_PendingIsNeverVisible ==
    /\ last.op = "create_video" => Visible(last.job.status)
    /\ \A i \in DOMAIN jobs : Visible(jobs[i].status)
    /\ \A f \in DOMAIN store : Visible(store[f].status)
    /\ \A k \in 1..Len(get_jobs(jobs)) : Visible(get_jobs(jobs)[k].status)

\* two jobs were created, one of them with a failing submission, and a
\* refresh and a load followed: a record is held, listed and stored
C28_Witness ==
    /\ submitFailed # {}
    /\ Len(get_jobs(jobs)) >= 1
    /\ store # <<>>
    /\ ops = MaxOps

Settled ==
    /\ \A i \in DOMAIN jobs : jobs[i].status = TerminalOf(jobs[i])
    /\ \A f \in DOMAIN store : store[f].status = TerminalOf(store[f])
    /\ Len(jobs) = 2

\* C29: when the service reports a terminal status for a job from some point
\* on and the job is refreshed again and again with polls that succeed, the
\* record comes to have that status, held and stored, and keeps it.
C29_RefreshSettles == <>[]Settled

====
